---- MODULE Spec2Model ----
(***************************************************************************)
(* The view/session state machine of the virtual try-on application        *)
(* (src/App.tsx) together with the AI gateway client it calls              *)
(* (services/geminiService, src/unnamed/part_000).                         *)
(*                                                                         *)
(* One action models one event handler, or one resumption of an async      *)
(* handler after an await, followed by the render and the persistence      *)
(* effects (useEffect) that React runs for the state that handler changed. *)
(***************************************************************************)
EXTENDS Integers, Sequences, FiniteSets, Bags, TLC

VARIABLES
    view,               \* useState 'start' | 'tryOn' | 'history' | 'result' | 'loading'
    personImage,        \* UploadedImage | null
    clothingImage,      \* UploadedImage | null
    generatedImage,     \* {url, mimeType} | null
    isLoading,          \* boolean
    loadingText,        \* string
    error,              \* string | null
    history,            \* HistoryItem[]
    removeBgEnabled,    \* boolean
    styleTheme,         \* StyleTheme
    savedSession,       \* SavedSession | null
    localStorage,       \* the browser's persistent key-value store
    storageMode,        \* how the store answers: "ok", "full" (setItem throws), "denied" (every access throws)
    apiKey,             \* whether process.env.API_KEY is set
    tryOns,             \* the handleTryOn invocations suspended at an await
    stylistPrompt,      \* value of the style <select>
    customStylistPrompt,\* text of the custom-style <textarea>
    suggestions,        \* ClothingSuggestion[]
    suggestionImages,   \* Record<name, {url, mimeType, file} | 'loading'>
    stylists,           \* the bag of handleGetSuggestions invocations not yet finished
    uncaught,           \* whether an exception has left an event handler uncaught
    codec               \* a file taken through fileToBase64 and dataURLtoFile, or null

vars == <<view, personImage, clothingImage, generatedImage, isLoading, loadingText,
          error, history, removeBgEnabled, styleTheme, savedSession, localStorage,
          storageMode, apiKey, tryOns, stylistPrompt, customStylistPrompt, suggestions,
          suggestionImages, stylists, uncaught, codec>>

-----------------------------------------------------------------------------
(* Bounds of the model *)

MaxHistory == 2     \* a try-on is started only while history is shorter than this
MaxTryOns == 2      \* handleTryOn invocations that may be suspended at once
MaxStylists == 2    \* handleGetSuggestions invocations that may be unfinished at once
MaxBatch == 2       \* suggestions in the longest list the stylist returns
MaxLen == 4         \* bytes in the longest file taken through the codec alone

-----------------------------------------------------------------------------
(* Values *)

Null == <<>>

Views == {"start", "tryOn", "history", "result", "loading"}
StyleThemes == {"Photorealistic", "Magazine Cover", "Artistic"}
DefaultStyleTheme == "Photorealistic"
StorageModes == {"ok", "full", "denied"}

\* The files the user picks or drops: a photo of a person, a photo of a
\* clothing item, an image file of zero bytes and a file that is no image.
PersonPhoto == [content |-> <<255, 216>>, type |-> "image/jpeg", name |-> "me.jpg"]
ClothingPhoto == [content |-> <<137>>, type |-> "image/png", name |-> "shirt.png"]
EmptyPhoto == [content |-> <<>>, type |-> "image/png", name |-> "empty.png"]
TextFile == [content |-> <<116, 101, 120>>, type |-> "text/plain", name |-> "notes.txt"]
PersonFiles == {PersonPhoto, TextFile}
ClothingFiles == {ClothingPhoto, EmptyPhoto, TextFile}

\* The style themes the user switches between on the editing screen.
StyleChoices == {"Photorealistic", "Magazine Cover"}

\* A file's content is a sequence of bytes.  Base64 text is a sequence of
\* characters, each named by its index in the base64 alphabet; Pad is '='.
Pad == 64

\* The base64 text of bytes, as FileReader.readAsDataURL writes it: four
\* characters for every three bytes, the last group padded.
RECURSIVE Base64(_)
Base64(content) ==
    IF content = <<>> THEN <<>>
    ELSE LET b1 == content[1]
         IN  IF Len(content) = 1
             THEN <<b1 \div 4, (b1 % 4) * 16, Pad, Pad>>
             ELSE LET b2 == content[2]
                  IN  IF Len(content) = 2
                      THEN <<b1 \div 4, (b1 % 4) * 16 + b2 \div 16, (b2 % 16) * 4, Pad>>
                      ELSE LET b3 == content[3]
                           IN  <<b1 \div 4, (b1 % 4) * 16 + b2 \div 16,
                                 (b2 % 16) * 4 + b3 \div 64, b3 % 64>>
                               \o Base64(SubSeq(content, 4, Len(content)))

\* atob of well-formed base64 text, and the charCodeAt of each character of
\* the binary string it returns: three bytes for every four characters,
\* fewer for a padded group.
RECURSIVE atob(_)
atob(payload) ==
    IF Len(payload) < 4 THEN <<>>
    ELSE LET c1 == payload[1]
             c2 == payload[2]
             c3 == payload[3]
             c4 == payload[4]
             first == c1 * 4 + c2 \div 16
         IN  (IF c3 = Pad THEN <<first>>
              ELSE IF c4 = Pad THEN <<first, (c2 % 16) * 16 + c3 \div 4>>
              ELSE <<first, (c2 % 16) * 16 + c3 \div 4, (c3 % 4) * 64 + c4>>)
             \o atob(SubSeq(payload, 5, Len(payload)))

\* A URL is the text before its first comma and, when it has a comma, the
\* text after it.  URL.createObjectURL gives "blob:<origin>/<uuid>", which
\* holds no comma; a data URL is "data:<mime>;base64,<payload>".
CreateObjectURL(file) ==
    [head |-> <<"blob", ":", ToString(file.content)>>, comma |-> FALSE, payload |-> <<>>]
DataUrl(mimeType, data) ==
    [head |-> <<"data", ":", mimeType, ";", "base64">>, comma |-> TRUE, payload |-> data]

UploadedImage(file, previewUrl) == [file |-> file, previewUrl |-> previewUrl]

\* The empty suggestion-image map, the 'loading' marker, {...prev, [name]: value}
\* and delete newState[name].
NoImages == [name \in {} |-> Null]
Loading == [loading |-> TRUE]
Put(prev, name, value) ==
    [n \in DOMAIN prev \cup {name} |-> IF n = name THEN value ELSE prev[n]]
Delete(prev, name) == [n \in DOMAIN prev \ {name} |-> prev[n]]

\* A string built from a literal and, for a template literal, the value
\* interpolated at its end.
Str(text, arg) == [text |-> text, arg |-> arg]
Lit(text) == Str(text, "")
EmptyString == Lit("")

\* The rendered text of a translation key (the table is ./translations).
translations(key) == Lit(key)
t(key) == translations(key)


-----------------------------------------------------------------------------
(* Image codec utilities *)

Resolved(value) == [ok |-> TRUE, value |-> value]
Rejected(reason) == [ok |-> FALSE, reason |-> reason]
\* new Error(text); a rejection with a ProgressEvent carries no message.
Error(message) == [message |-> message]
ProgressEvent == [type |-> "error"]

\* The message of the caught value, without the fallback.
MessageAlone(e) == IF "message" \in DOMAIN e THEN e.message ELSE Null

\* e.message || t('errorUnexpected')
MessageOf(e) ==
    IF "message" \in DOMAIN e /\ e.message # EmptyString THEN e.message ELSE t("errorUnexpected")

\* fileToBase64: FileReader.readAsDataURL, then the text after the comma.
\* readOk is whether the reader fires onload (TRUE) or onerror (FALSE).
fileToBase64(file, readOk) ==
    IF ~readOk THEN Rejected(ProgressEvent)
    ELSE LET result == DataUrl(file.type, Base64(file.content))
             base64 == result.payload
         IN  IF base64 = <<>>
             THEN Rejected(Error(Lit("Failed to read base64 string from file.")))
             ELSE Resolved(base64)

\* arr[0].match(/:(.*?);/): the text between the first ':' and the next ';'.
FirstMatch(head) ==
    LET ends == {e \in (DOMAIN head) \X (DOMAIN head) :
                    /\ e[1] < e[2]
                    /\ head[e[1]] = ":"
                    /\ head[e[2]] = ";"
                    /\ \A i \in 1..(e[1] - 1) : head[i] # ":"
                    /\ \A i \in (e[1] + 1)..(e[2] - 1) : head[i] # ";"}
    IN  IF ends = {} THEN Null
        ELSE <<SubSeq(head, (CHOOSE e \in ends : TRUE)[1] + 1,
                      (CHOOSE e \in ends : TRUE)[2] - 1)>>

\* The match of /:(.*?),/ in the text before the comma: none.
MimeMatchToComma(head) == Null

\* The match in the text, with the text evaluated once.
MimeMatch(head) == CHOOSE match \in {FirstMatch(text) : text \in {head}} : TRUE

\* The decoder whose copy loop is while (--n): the byte at index 0 stays 0.
dataURLtoFilePreDecrement(dataurl, filename) ==
    IF ~dataurl.comma THEN Null
    ELSE LET mimeMatch == MimeMatch(dataurl.head)
             bstr == atob(dataurl.payload)
         IN  IF mimeMatch = Null THEN Null
             ELSE [content |-> [n \in DOMAIN bstr |-> IF n = 1 THEN 0 ELSE bstr[n]],
                   type |-> IF Len(mimeMatch[1]) = 1 THEN mimeMatch[1][1] ELSE "",
                   name |-> filename]

\* dataURLtoFile: null when the text has no comma or no MIME segment.
dataURLtoFile(dataurl, filename) ==
    IF ~dataurl.comma THEN Null
    ELSE LET mimeMatch == MimeMatch(dataurl.head)
         IN  IF mimeMatch = Null THEN Null
             ELSE LET mime == mimeMatch[1]
                  IN  [content |-> atob(dataurl.payload),
                       type |-> IF Len(mime) = 1 THEN mime[1] ELSE "",
                       name |-> filename]

-----------------------------------------------------------------------------
(* AI gateway client.  A response of the external model is one of: an image  *)
(* part, no image with a block reason, no image without one, a failed        *)
(* request; apiKey = FALSE is a build without process.env.API_KEY.           *)

ImageResponse(data, mimeType) == [kind |-> "image", data |-> data, mimeType |-> mimeType]
BlockedResponse == [kind |-> "blocked", blockReason |-> "SAFETY"]
EmptyResponse == [kind |-> "empty"]
NetworkFailure == [kind |-> "network"]

\* What the body of the try block does with a response: return or throw.
ImageOrThrow(response, blockedText, emptyText) ==
    CASE response.kind = "image" ->
            Resolved([data |-> response.data, mimeType |-> response.mimeType])
      [] response.kind = "blocked" ->
            Rejected(Error(Str(blockedText, response.blockReason)))
      [] response.kind = "empty" -> Rejected(Error(Lit(emptyText)))
      [] OTHER -> Rejected(Error(Lit("network error")))

\* catch (error) { console.error(...); throw new Error(text) }
Rethrow(outcome, text) == IF outcome.ok THEN outcome ELSE Rejected(Error(Lit(text)))

removeBackground(hasKey, response) ==
    IF ~hasKey THEN Rejected(Error(Lit("API_KEY environment variable is not set.")))
    ELSE Rethrow(ImageOrThrow(response, "Background removal was blocked due to: ",
                              "No image was generated during background removal."),
                 "Failed to remove background. Please check the console for more details.")

virtualTryOn(hasKey, response) ==
    IF ~hasKey THEN Rejected(Error(Lit("API_KEY environment variable is not set.")))
    ELSE Rethrow(ImageOrThrow(response, "Image generation was blocked due to: ",
                              "No image was generated in the response."),
                 "Failed to generate image. Please check the console for more details.")

\* getClothingSuggestions: JSON.parse(response.text), then .suggestions.
getClothingSuggestions(hasKey, response) ==
    IF ~hasKey THEN Rejected(Error(Lit("API_KEY environment variable is not set.")))
    ELSE Rethrow(IF response.kind = "json" THEN Resolved(response.suggestions)
                 ELSE IF response.kind = "malformed"
                 THEN Rejected(Error(Lit("AI response did not contain valid suggestions.")))
                 ELSE Rejected(Error(Lit("network error"))),
                 "Failed to get clothing suggestions. Please check the console.")

generateClothingImage(hasKey, response) ==
    IF ~hasKey THEN Rejected(Error(Lit("API_KEY environment variable is not set.")))
    ELSE Rethrow(ImageOrThrow(response, "Clothing image generation was blocked due to: ",
                              "No image was generated for the clothing item."),
                 "Failed to generate clothing image. Please check the console.")

\* The lists the stylist may return: n suggestions with distinct names, and
\* a list in which two suggestions share a name.
Suggestion(name, description) == [name |-> name, description |-> description]
Batch(n) == [i \in 1..n |-> Suggestion(i, i)]
DuplicateBatch == <<Suggestion(1, 1), Suggestion(1, 2)>>
SuggestionResponses ==
    {[kind |-> "json", suggestions |-> list] :
        list \in {Batch(n) : n \in 0..MaxBatch} \cup {DuplicateBatch}}
    \cup {[kind |-> "malformed"], NetworkFailure}

\* The response to the image call for a description: the image of that
\* garment, or none.
ResponseKinds == {"image", "blocked", "network"}
GenerationResponse(description, kind) ==
    CASE kind = "image" -> ImageResponse(Base64(<<description>>), "image/png")
      [] kind = "blocked" -> BlockedResponse
      [] OTHER -> NetworkFailure

\* The responses the external model may give to the two image calls.
BackgroundRemoved == ImageResponse(Base64(<<255, 216, 0>>), "image/png")
RemovalResponses == {BackgroundRemoved, BlockedResponse, EmptyResponse, NetworkFailure}
CompositeResponses ==
    {ImageResponse(Base64(<<1>>), "image/png"), ImageResponse(Base64(<<2>>), "image/webp"),
     BlockedResponse, EmptyResponse, NetworkFailure}

-----------------------------------------------------------------------------
(* Storage adapter: localStorage and the persistence effects. *)

StorageKeys == {"trayonHistory", "trayonSavedSession", "trayonPersonImage",
                "trayonClothingImage", "trayonRemoveBg", "trayonStyleTheme"}
EmptyStorage == [k \in StorageKeys |-> Null]

\* localStorage.setItem / removeItem inside try { } catch { console.error }.
setItem(ls, mode, key, value) == IF mode = "ok" THEN [ls EXCEPT ![key] = value] ELSE ls
removeItem(ls, mode, key) == IF mode = "denied" THEN ls ELSE [ls EXCEPT ![key] = Null]
\* localStorage.getItem inside try/catch: null when the access throws.
getItem(ls, mode, key) == IF mode = "denied" THEN Null ELSE ls[key]

\* JSON.stringify of a boolean, kept apart from null.
Json(value) == [json |-> value]

PersistHistory(ls, mode, h) == setItem(ls, mode, "trayonHistory", Json(h))
PersistRemoveBg(ls, mode, flag) == setItem(ls, mode, "trayonRemoveBg", Json(flag))
PersistStyleTheme(ls, mode, theme) == setItem(ls, mode, "trayonStyleTheme", Json(theme))
PersistImage(ls, mode, key, image) ==
    IF image # Null THEN setItem(ls, mode, key, image.previewUrl)
    ELSE removeItem(ls, mode, key)

\* The effects React runs after a render, one per dependency that changed.
\* A dependency holding an object changes whenever its setter was given a
\* new object (hSet, pSet, cSet), a primitive one when its value differs.
RunEffects(ls, mode, hSet, h, pSet, p, cSet, c, rbOld, rb, stOld, st) ==
    LET l1 == IF hSet THEN PersistHistory(ls, mode, h) ELSE ls
        l2 == IF rb # rbOld THEN PersistRemoveBg(l1, mode, rb) ELSE l1
        l3 == IF st # stOld THEN PersistStyleTheme(l2, mode, st) ELSE l2
        l4 == IF pSet THEN PersistImage(l3, mode, "trayonPersonImage", p) ELSE l3
        l5 == IF cSet THEN PersistImage(l4, mode, "trayonClothingImage", c) ELSE l4
    IN  l5

\* The render that follows a handler: the effects of what it changed.
Render(hSet, pSet, cSet) ==
    localStorage' = RunEffects(localStorage, storageMode, hSet, history',
                               pSet, personImage', cSet, clothingImage',
                               removeBgEnabled, removeBgEnabled', styleTheme, styleTheme')

\* A handler that wrote localStorage itself (ls), then the render.
RenderFrom(ls, hSet, pSet, cSet) ==
    localStorage' = RunEffects(ls, storageMode, hSet, history',
                               pSet, personImage', cSet, clothingImage',
                               removeBgEnabled, removeBgEnabled', styleTheme, styleTheme')

-----------------------------------------------------------------------------
(* Mount: the useState initialisers, the load effect and the first run of   *)
(* every persistence effect.                                                *)

InitialRemoveBg(ls, mode) ==
    LET saved == getItem(ls, mode, "trayonRemoveBg")
    IN  IF saved # Null THEN saved.json ELSE TRUE

InitialStyleTheme(ls, mode) ==
    LET saved == getItem(ls, mode, "trayonStyleTheme")
    IN  IF saved # Null /\ saved.json \in StyleThemes THEN saved.json ELSE DefaultStyleTheme

\* The startup that does not read the history.
HistoryNotLoaded(ls, mode) == <<>>

LoadedHistory(ls, mode) ==
    LET saved == getItem(ls, mode, "trayonHistory")
    IN  IF saved # Null THEN saved.json ELSE <<>>

LoadedSession(ls, mode) ==
    LET saved == getItem(ls, mode, "trayonSavedSession")
    IN  IF saved # Null THEN saved.json ELSE Null

LoadedImage(ls, mode, key, filename) ==
    LET persisted == getItem(ls, mode, key)
    IN  IF persisted = Null THEN Null
        ELSE LET file == dataURLtoFile(persisted, filename)
             IN  IF file = Null THEN Null ELSE UploadedImage(file, persisted)

\* The state of a freshly mounted App over the store ls.
Mounted(ls, mode) ==
    LET h == LoadedHistory(ls, mode)
        p == LoadedImage(ls, mode, "trayonPersonImage", "person.png")
        c == LoadedImage(ls, mode, "trayonClothingImage", "clothing.png")
        rb == InitialRemoveBg(ls, mode)
        st == InitialStyleTheme(ls, mode)
        \* first run of the effects, over the initial state
        first == PersistImage(PersistImage(PersistStyleTheme(PersistRemoveBg(
                    PersistHistory(ls, mode, <<>>), mode, rb), mode, st),
                    mode, "trayonPersonImage", Null), mode, "trayonClothingImage", Null)
        \* second run, for what the load effect set
        second == RunEffects(first, mode, getItem(ls, mode, "trayonHistory") # Null, h,
                             p # Null, p, c # Null, c, rb, rb, st, st)
    IN  [history |-> h, savedSession |-> LoadedSession(ls, mode), personImage |-> p,
         clothingImage |-> c, removeBgEnabled |-> rb, styleTheme |-> st,
         localStorage |-> second]

MountOver(ls, mode, m) ==
    /\ view = "start"
    /\ personImage = m.personImage
    /\ clothingImage = m.clothingImage
    /\ generatedImage = Null
    /\ isLoading = FALSE
    /\ loadingText = EmptyString
    /\ error = Null
    /\ history = m.history
    /\ removeBgEnabled = m.removeBgEnabled
    /\ styleTheme = m.styleTheme
    /\ savedSession = m.savedSession
    /\ localStorage = m.localStorage
    /\ tryOns = <<>>
    /\ stylistPrompt = ""
    /\ customStylistPrompt = ""
    /\ suggestions = <<>>
    /\ suggestionImages = NoImages
    /\ stylists = EmptyBag
    /\ uncaught = FALSE

Init ==
    /\ storageMode \in StorageModes
    /\ apiKey \in BOOLEAN
    /\ codec = Null
    /\ MountOver(EmptyStorage, storageMode, Mounted(EmptyStorage, storageMode))

-----------------------------------------------------------------------------
(* Handlers of the start menu, the editing screen, the result and history  *)
(* screens.  Each is enabled in the views that render its control.         *)

AsyncUnchanged == UNCHANGED <<tryOns, stylists>>

\* The invocations of handleGetSuggestions, each marked as no longer alone.
Disturbed(bag) ==
    LET Mark(op) == [op EXCEPT !.alone = FALSE]
    IN  BagOfAll(Mark, bag)

StylistUnchanged == UNCHANGED <<stylistPrompt, customStylistPrompt, suggestions, suggestionImages>>
EnvUnchanged == UNCHANGED <<storageMode, apiKey, uncaught, codec>>

\* The removal of every key the session wrote.
StartNewStorageAll(ls, mode) ==
    removeItem(removeItem(removeItem(removeItem(ls, mode, "trayonPersonImage"),
        mode, "trayonClothingImage"), mode, "trayonSavedSession"), mode, "trayonHistory")

\* handleStartNew: the state it resets; removeThrows is whether its two
\* direct localStorage.removeItem calls throw.
StartNewStorage(ls, mode) ==
    removeItem(removeItem(ls, mode, "trayonPersonImage"), mode, "trayonClothingImage")

handleStartNew ==
    /\ personImage' = Null
    /\ clothingImage' = Null
    /\ generatedImage' = Null
    /\ error' = Null
    /\ styleTheme' = DefaultStyleTheme
    /\ removeBgEnabled' = TRUE
    /\ stylistPrompt' = ""
    /\ customStylistPrompt' = ""
    /\ suggestions' = <<>>
    /\ suggestionImages' = NoImages
    /\ RenderFrom(StartNewStorage(localStorage, storageMode), FALSE,
                  personImage # Null, clothingImage # Null)

\* onClick={() => { handleStartNew(); setView('tryOn'); }}: when removeItem
\* throws, the statement after the call is not reached.
ViewAfterStartNew(mode, current) == IF mode = "denied" THEN current ELSE "tryOn"

StartNewThenTryOn ==
    /\ handleStartNew
    /\ view' = ViewAfterStartNew(storageMode, view)
    /\ uncaught' = (uncaught \/ storageMode = "denied")
    /\ UNCHANGED <<isLoading, loadingText, history, savedSession, tryOns>>
    /\ stylists' = Disturbed(stylists)
    /\ UNCHANGED <<storageMode, apiKey, codec>>

OnStart ==
    /\ view = "start"
    /\ StartNewThenTryOn

ResultStartNew ==
    /\ view = "result"
    /\ StartNewThenTryOn

\* The history button that is never disabled.
hasHistoryAlways(h) == TRUE

\* hasHistory={history.length > 0}; the button is disabled={!hasHistory}.
hasHistory(h) == Len(h) > 0

OnViewHistory ==
    /\ view = "start"
    /\ hasHistory(history)
    /\ view' = "history"
    /\ UNCHANGED <<personImage, clothingImage, generatedImage, isLoading, loadingText,
                   error, history, removeBgEnabled, styleTheme, savedSession, localStorage>>
    /\ StylistUnchanged /\ AsyncUnchanged /\ EnvUnchanged

\* The button rendered in the loading view as well.
BackViewsAndLoading == {"tryOn", "history", "loading"}

\* The views that render the back-to-menu button.
BackViews == {"tryOn", "history"}

BackToMenu ==
    /\ view \in BackViews
    /\ view' = "start"
    /\ UNCHANGED <<personImage, clothingImage, generatedImage, isLoading, loadingText,
                   error, history, removeBgEnabled, styleTheme, savedSession, localStorage>>
    /\ StylistUnchanged /\ AsyncUnchanged /\ EnvUnchanged

\* handleImageChange(setter)(file)
\* file.type.startsWith('image/')
IsImageType(type) == type \in {"image/jpeg", "image/png", "image/webp"}
ImageChanged(image, file) ==
    IF IsImageType(file.type) THEN UploadedImage(file, CreateObjectURL(file)) ELSE image
ImageChangeError(file) ==
    IF IsImageType(file.type) THEN Null ELSE t("errorInvalidImage")

PersonImageChange(file) ==
    /\ view = "tryOn"
    /\ personImage' = ImageChanged(personImage, file)
    /\ error' = ImageChangeError(file)
    /\ UNCHANGED <<view, clothingImage, generatedImage, isLoading, loadingText, history,
                   removeBgEnabled, styleTheme, savedSession>>
    /\ Render(FALSE, IsImageType(file.type), FALSE)
    /\ StylistUnchanged /\ AsyncUnchanged /\ EnvUnchanged

ClothingImageChange(file) ==
    /\ view = "tryOn"
    /\ clothingImage' = ImageChanged(clothingImage, file)
    /\ error' = ImageChangeError(file)
    /\ UNCHANGED <<view, personImage, generatedImage, isLoading, loadingText, history,
                   removeBgEnabled, styleTheme, savedSession>>
    /\ Render(FALSE, FALSE, IsImageType(file.type))
    /\ StylistUnchanged /\ AsyncUnchanged /\ EnvUnchanged

ToggleRemoveBg ==
    /\ view = "tryOn"
    /\ removeBgEnabled' = ~removeBgEnabled
    /\ UNCHANGED <<view, personImage, clothingImage, generatedImage, isLoading, loadingText,
                   error, history, styleTheme, savedSession>>
    /\ Render(FALSE, FALSE, FALSE)
    /\ StylistUnchanged /\ AsyncUnchanged /\ EnvUnchanged

SetStyleTheme(theme) ==
    /\ view = "tryOn"
    /\ theme # styleTheme
    /\ styleTheme' = theme
    /\ UNCHANGED <<view, personImage, clothingImage, generatedImage, isLoading, loadingText,
                   error, history, removeBgEnabled, savedSession>>
    /\ Render(FALSE, FALSE, FALSE)
    /\ StylistUnchanged /\ AsyncUnchanged /\ EnvUnchanged

\* handleSaveSession
\* Both images are missing.
NoImageAtAll(person, clothing) == person = Null /\ clothing = Null

\* if (!personImage || !clothingImage), of handleTryOn
MissingImage(person, clothing) == person = Null \/ clothing = Null

\* The snapshot with the two previews exchanged.
SessionCrossed(person, clothing, removeBg, theme) ==
    [personImage |-> clothing.previewUrl, clothingImage |-> person.previewUrl,
     removeBgEnabled |-> removeBg, styleTheme |-> theme]

Session(person, clothing, removeBg, theme) ==
    [personImage |-> person.previewUrl, clothingImage |-> clothing.previewUrl,
     removeBgEnabled |-> removeBg, styleTheme |-> theme]

\* The catch that reports the failure with the general message.
SaveSessionUnexpected == t("errorUnexpected")

\* catch (e) { setError(t('errorSaveSession')) }
SaveSessionError == t("errorSaveSession")

\* handleSaveSession.  As with the try-on, the button is disabled while an
\* image is missing and the handler checks the images itself.
handleSaveSession ==
    /\ view = "tryOn"
    /\ IF personImage = Null \/ clothingImage = Null
       THEN /\ error' = t("errorNeedBothImages")
            /\ UNCHANGED <<savedSession, localStorage>>
       ELSE LET session == Session(personImage, clothingImage, removeBgEnabled, styleTheme)
            IN  IF storageMode = "ok"
                THEN /\ localStorage' = setItem(localStorage, storageMode,
                                                "trayonSavedSession", Json(session))
                     /\ savedSession' = session
                     /\ UNCHANGED error
                ELSE /\ error' = SaveSessionError
                     /\ UNCHANGED <<savedSession, localStorage>>
    /\ UNCHANGED <<view, personImage, clothingImage, generatedImage, isLoading, loadingText,
                   history, removeBgEnabled, styleTheme>>
    /\ StylistUnchanged /\ AsyncUnchanged /\ EnvUnchanged

\* handleLoadSession; the button is disabled without a saved session.
SessionImage(current, url, filename) ==
    LET file == dataURLtoFile(url, filename)
    IN  IF file # Null THEN UploadedImage(file, url) ELSE current

handleLoadSession ==
    /\ view = "start"
    /\ savedSession # Null
    /\ personImage' = SessionImage(personImage, savedSession.personImage, "person.png")
    /\ clothingImage' = SessionImage(clothingImage, savedSession.clothingImage, "clothing.png")
    /\ removeBgEnabled' = savedSession.removeBgEnabled
    /\ styleTheme' = savedSession.styleTheme
    /\ view' = "tryOn"
    /\ UNCHANGED <<generatedImage, isLoading, loadingText, error, history, savedSession>>
    /\ Render(FALSE, dataURLtoFile(savedSession.personImage, "person.png") # Null,
              dataURLtoFile(savedSession.clothingImage, "clothing.png") # Null)
    /\ StylistUnchanged /\ AsyncUnchanged /\ EnvUnchanged

\* The filter with indexToDelete read as a position counted from 1.
FilterPosition(prev, indexToDelete, index) ==
    SubSeq(prev, 1, indexToDelete - 1) \o SubSeq(prev, indexToDelete + 1, Len(prev))

\* prev.filter((_, index) => index !== indexToDelete), indices from 0.
RECURSIVE FilterIndex(_, _, _)
FilterIndex(prev, indexToDelete, index) ==
    IF prev = <<>> THEN <<>>
    ELSE (IF index # indexToDelete THEN <<Head(prev)>> ELSE <<>>)
         \o FilterIndex(Tail(prev), indexToDelete, index + 1)

\* handleDeleteHistoryItem; confirmed is the answer to window.confirm.
handleDeleteHistoryItem(indexToDelete, confirmed) ==
    /\ view \in {"history", "result"}
    /\ indexToDelete \in 0..(Len(history) - 1)
    /\ history' = IF confirmed THEN FilterIndex(history, indexToDelete, 0) ELSE history
    /\ UNCHANGED <<view, personImage, clothingImage, generatedImage, isLoading, loadingText,
                   error, removeBgEnabled, styleTheme, savedSession>>
    /\ Render(confirmed, FALSE, FALSE)
    /\ StylistUnchanged /\ AsyncUnchanged /\ EnvUnchanged

-----------------------------------------------------------------------------
(* handleTryOn.  An invocation is a record of the values its closure holds   *)
(* (the state of the render it was started from), its locals, the await it   *)
(* is suspended at, and the gateway calls it has issued and seen return.     *)

RemoveAt(seq, k) == SubSeq(seq, 1, k - 1) \o SubSeq(seq, k + 1, Len(seq))

Call(fn, args) == [event |-> "call", fn |-> fn, args |-> args]
Return(fn, value) == [event |-> "return", fn |-> fn, value |-> value]

\* catch (e) { setError(...); setView('tryOn') } finally { setIsLoading(false); setLoadingText('') }
TryOnCatch(k, e) ==
    /\ error' = MessageOf(e)
    /\ view' = "tryOn"
    /\ isLoading' = FALSE
    /\ loadingText' = EmptyString
    /\ tryOns' = RemoveAt(tryOns, k)
    /\ UNCHANGED <<personImage, clothingImage, generatedImage, history, removeBgEnabled,
                   styleTheme, savedSession, localStorage>>
    /\ StylistUnchanged /\ UNCHANGED stylists /\ EnvUnchanged

\* A step that stays inside the try block: the new loading text and the
\* invocation as it is suspended next.
TryOnContinue(k, text, op) ==
    /\ loadingText' = text
    /\ tryOns' = [tryOns EXCEPT ![k] = op]
    /\ UNCHANGED <<view, personImage, clothingImage, generatedImage, isLoading, error,
                   history, removeBgEnabled, styleTheme, savedSession, localStorage>>
    /\ StylistUnchanged /\ UNCHANGED stylists /\ EnvUnchanged

TypeError == Error(Lit("Cannot read properties of null"))

\* The view left where it was.
ViewNotSwitched == "tryOn"

\* setView('loading')
ViewWhileTryingOn == "loading"

\* setLoadingText(t('generatingLook')); fileToBase64(clothingImage.file) is called.
TryOnReadClothing(k, op) ==
    IF op.clothingImage = Null THEN TryOnCatch(k, TypeError)
    ELSE TryOnContinue(k, t("generatingLook"), [op EXCEPT !.pc = "readClothing"])

\* The removal returns and the person file's own bytes stay in use.
AfterRemovalUnused(op, bgRemoved) ==
    [op EXCEPT !.calls = Append(@, Return("removeBackground", bgRemoved))]

\* personBase64 = bgRemoved.data; personMimeType = bgRemoved.mimeType
AfterRemoval(op, bgRemoved) ==
    [op EXCEPT !.personBase64 = bgRemoved.data,
               !.personMimeType = bgRemoved.mimeType,
               !.calls = Append(@, Return("removeBackground", bgRemoved))]

\* handleTryOn up to its first await.  The button is rendered in the tryOn
\* view and is disabled while an image is missing; the handler checks the
\* images itself, and its branch for a missing image is kept.
handleTryOn ==
    /\ view = "tryOn"
    /\ Len(tryOns) < MaxTryOns
    /\ Len(history) < MaxHistory
    /\ IF MissingImage(personImage, clothingImage)
       THEN /\ error' = t("errorNeedBothImagesUpload")
            /\ UNCHANGED <<view, isLoading, loadingText, generatedImage, tryOns>>
       ELSE IF personImage = Null
       THEN \* personImage.file throws inside the try block
            /\ isLoading' = FALSE
            /\ error' = MessageOf(TypeError)
            /\ generatedImage' = Null
            /\ view' = "tryOn"
            /\ loadingText' = EmptyString
            /\ UNCHANGED tryOns
       ELSE /\ isLoading' = TRUE
            /\ error' = Null
            /\ generatedImage' = Null
            /\ view' = ViewWhileTryingOn
            /\ loadingText' = t("magicMessage")
            /\ tryOns' = Append(tryOns,
                   [pc |-> "readPerson", personImage |-> personImage,
                    clothingImage |-> clothingImage, removeBgEnabled |-> removeBgEnabled,
                    styleTheme |-> styleTheme, personBase64 |-> <<>>,
                    personMimeType |-> "", calls |-> <<>>])
    /\ UNCHANGED <<personImage, clothingImage, history, removeBgEnabled, styleTheme,
                   savedSession, localStorage>>
    /\ StylistUnchanged /\ UNCHANGED stylists /\ EnvUnchanged

\* await fileToBase64(personImage.file) settles.
TryOnPersonRead(k, readOk) ==
    /\ k \in DOMAIN tryOns
    /\ tryOns[k].pc = "readPerson"
    /\ LET op == tryOns[k]
           read == fileToBase64(op.personImage.file, readOk)
       IN  IF ~read.ok THEN TryOnCatch(k, read.reason)
           ELSE LET personMimeType == op.personImage.file.type
                    next == [op EXCEPT !.personBase64 = read.value,
                                       !.personMimeType = personMimeType]
                IN  IF op.removeBgEnabled
                    THEN TryOnContinue(k, t("removingBackground"),
                            [next EXCEPT !.pc = "removeBackground",
                                         !.calls = Append(@, Call("removeBackground",
                                                      <<read.value, personMimeType>>))])
                    ELSE TryOnReadClothing(k, next)

\* await removeBackground(personBase64, personMimeType) settles.
TryOnBackgroundRemoved(k, response) ==
    /\ k \in DOMAIN tryOns
    /\ tryOns[k].pc = "removeBackground"
    /\ LET op == tryOns[k]
           bgRemoved == removeBackground(apiKey, response)
       IN  IF ~bgRemoved.ok THEN TryOnCatch(k, bgRemoved.reason)
           ELSE TryOnReadClothing(k, AfterRemoval(op, bgRemoved.value))

\* await fileToBase64(clothingImage.file) settles; virtualTryOn is called.
TryOnClothingRead(k, readOk) ==
    /\ k \in DOMAIN tryOns
    /\ tryOns[k].pc = "readClothing"
    /\ LET op == tryOns[k]
           read == fileToBase64(op.clothingImage.file, readOk)
       IN  IF ~read.ok THEN TryOnCatch(k, read.reason)
           ELSE TryOnContinue(k, loadingText,
                    [op EXCEPT !.pc = "virtualTryOn",
                               !.calls = Append(@, Call("virtualTryOn",
                                    <<op.personBase64, op.personMimeType, read.value,
                                      op.clothingImage.file.type, op.styleTheme>>))])

HistoryItem(person, clothing, result) ==
    [person |-> person, clothing |-> clothing, result |-> result]

\* The new entry put behind the others.
Appended(newHistoryItem, prev) == Append(prev, newHistoryItem)

\* setHistory(prev => [newHistoryItem, ...prev])
Prepended(newHistoryItem, prev) == <<newHistoryItem>> \o prev

\* The result view entered without its image.
GeneratedImageUnset(url, mimeType) == Null

\* setGeneratedImage({ url: resultUrl, mimeType: result.mimeType })
GeneratedImage(url, mimeType) == [url |-> url, mimeType |-> mimeType]

\* await virtualTryOn(...) settles.
TryOnComposited(k, response) ==
    /\ k \in DOMAIN tryOns
    /\ tryOns[k].pc = "virtualTryOn"
    /\ LET op == tryOns[k]
           result == virtualTryOn(apiKey, response)
       IN  IF ~result.ok THEN TryOnCatch(k, result.reason)
           ELSE LET resultUrl == DataUrl(result.value.mimeType, result.value.data)
                    newHistoryItem == HistoryItem(op.personImage.previewUrl,
                                                  op.clothingImage.previewUrl, resultUrl)
                IN  /\ generatedImage' = GeneratedImage(resultUrl, result.value.mimeType)
                    /\ history' = Prepended(newHistoryItem, history)
                    /\ view' = "result"
                    /\ isLoading' = FALSE
                    /\ loadingText' = EmptyString
                    /\ tryOns' = RemoveAt(tryOns, k)
                    /\ UNCHANGED <<personImage, clothingImage, error, removeBgEnabled,
                                   styleTheme, savedSession>>
                    /\ Render(TRUE, FALSE, FALSE)
                    /\ StylistUnchanged /\ UNCHANGED stylists /\ EnvUnchanged

-----------------------------------------------------------------------------
(* The AI stylist: handleGetSuggestions and the selection of a suggestion.  *)
(* An invocation holds the await it is suspended at, whether its 200 ms     *)
(* timer is still to fire, the list it fetched and the indices of the image *)
(* generations that have not settled.  Two fields record its past, for the  *)
(* statements about a batch: the indices of the generations that succeeded  *)
(* (succeeded), and whether nothing else has written the suggestions or the *)
(* suggestion-image map since it started (alone): no handleStartNew, no     *)
(* other invocation.                                                        *)

StylistPrompts == {"casual", "custom"}
CustomPrompts == {"", "something boho"}

SetStylistPrompt(prompt) ==
    /\ view = "tryOn"
    /\ prompt # stylistPrompt
    /\ stylistPrompt' = prompt
    /\ UNCHANGED <<view, personImage, clothingImage, generatedImage, isLoading, loadingText,
                   error, history, removeBgEnabled, styleTheme, savedSession, localStorage,
                   customStylistPrompt, suggestions, suggestionImages>>
    /\ AsyncUnchanged /\ EnvUnchanged

SetCustomStylistPrompt(text) ==
    /\ view = "tryOn"
    /\ stylistPrompt = "custom"
    /\ text # customStylistPrompt
    /\ customStylistPrompt' = text
    /\ UNCHANGED <<view, personImage, clothingImage, generatedImage, isLoading, loadingText,
                   error, history, removeBgEnabled, styleTheme, savedSession, localStorage,
                   stylistPrompt, suggestions, suggestionImages>>
    /\ AsyncUnchanged /\ EnvUnchanged

Replaced(bag, old, new) == (bag (-) SetToBag({old})) (+) SetToBag({new})

\* The prompt read from the select alone.
FinalPromptSelected(prompt, custom) == prompt

FinalPrompt(prompt, custom) == IF prompt = "custom" THEN custom ELSE prompt

\* The button is disabled while isLoading; the handler checks the prompt.
handleGetSuggestions ==
    /\ view = "tryOn"
    /\ ~isLoading
    /\ IF FinalPrompt(stylistPrompt, customStylistPrompt) = ""
       THEN /\ error' = t("errorSelectStyle")
            /\ UNCHANGED <<loadingText, suggestions, suggestionImages, stylists>>
       ELSE /\ BagCardinality(stylists) < MaxStylists
            /\ loadingText' = t("gettingSuggestions")
            /\ error' = Null
            /\ suggestions' = <<>>
            /\ suggestionImages' = NoImages
            /\ stylists' = Disturbed(stylists) (+)
                   SetToBag({[pc |-> "getClothingSuggestions", timer |-> TRUE,
                              results |-> <<>>, pending |-> {}, succeeded |-> {},
                              alone |-> stylists = EmptyBag]})
    /\ UNCHANGED <<view, personImage, clothingImage, generatedImage, isLoading, history,
                   removeBgEnabled, styleTheme, savedSession, localStorage, stylistPrompt,
                   customStylistPrompt, tryOns>>
    /\ EnvUnchanged

\* setTimeout(() => { if (isRequestLoading) setIsLoading(true) }, 200) of an
\* invocation that has not reached its finally block.
StylistTimer(op) ==
    /\ BagIn(op, stylists)
    /\ op.timer
    /\ isLoading' = TRUE
    /\ stylists' = Replaced(stylists, op, [op EXCEPT !.timer = FALSE])
    /\ UNCHANGED <<view, personImage, clothingImage, generatedImage, loadingText, error,
                   history, removeBgEnabled, styleTheme, savedSession, localStorage, tryOns>>
    /\ StylistUnchanged /\ EnvUnchanged

\* The finally block without setIsLoading(false).
StylistFinallyFlagKept(op) ==
    /\ isLoading' = isLoading
    /\ loadingText' = EmptyString
    /\ stylists' = stylists (-) SetToBag({op})

\* finally { isRequestLoading = false; setIsLoading(false); setLoadingText('') }
StylistFinally(op) ==
    /\ isLoading' = FALSE
    /\ loadingText' = EmptyString
    /\ stylists' = stylists (-) SetToBag({op})

\* results.forEach: every name is marked 'loading', in list order.
RECURSIVE MarkLoading(_, _)
MarkLoading(prev, results) ==
    IF results = <<>> THEN prev
    ELSE MarkLoading(Put(prev, Head(results).name, Loading), Tail(results))

\* await getClothingSuggestions(...) settles.
SuggestionsFetched(op, response) ==
    /\ BagIn(op, stylists)
    /\ op.pc = "getClothingSuggestions"
    /\ LET fetched == getClothingSuggestions(apiKey, response)
       IN  IF ~fetched.ok
           THEN /\ error' = MessageOf(fetched.reason)
                /\ StylistFinally(op)
                /\ UNCHANGED <<suggestions, suggestionImages>>
           ELSE LET results == fetched.value
                IN  /\ suggestions' = results
                    /\ suggestionImages' = MarkLoading(suggestionImages, results)
                    /\ UNCHANGED error
                    /\ IF results = <<>>
                       THEN StylistFinally(op)
                       ELSE /\ loadingText' = t("generatingImageGallery")
                            /\ stylists' = Replaced(stylists, op,
                                   [op EXCEPT !.pc = "generateClothingImage",
                                              !.results = results,
                                              !.pending = DOMAIN results])
                            /\ UNCHANGED isLoading
    /\ UNCHANGED <<view, personImage, clothingImage, generatedImage, history, removeBgEnabled,
                   styleTheme, savedSession, localStorage, stylistPrompt, customStylistPrompt,
                   tryOns>>
    /\ EnvUnchanged

\* The settling with a .catch that leaves the map as it is.
ImageSettledNoCatch(prev, suggestion, generated) ==
    IF ~generated.ok THEN prev
    ELSE LET imageResult == generated.value
             imageUrl == DataUrl(imageResult.mimeType, imageResult.data)
         IN  Put(prev, suggestion.name,
                 [url |-> imageUrl, mimeType |-> imageResult.mimeType,
                  file |-> dataURLtoFile(imageUrl, suggestion.name)])

\* The settling with a .catch that removes the 'loading' marker only.
ImageSettledKeepsReady(prev, suggestion, generated) ==
    IF ~generated.ok
    THEN IF suggestion.name \in DOMAIN prev /\ prev[suggestion.name] # Loading
         THEN prev
         ELSE Delete(prev, suggestion.name)
    ELSE LET imageResult == generated.value
             imageUrl == DataUrl(imageResult.mimeType, imageResult.data)
         IN  Put(prev, suggestion.name,
                 [url |-> imageUrl, mimeType |-> imageResult.mimeType,
                  file |-> dataURLtoFile(imageUrl, suggestion.name)])

\* The .then / .catch of one generateClothingImage promise.
ImageSettled(prev, suggestion, generated) ==
    IF ~generated.ok THEN Delete(prev, suggestion.name)
    ELSE LET imageResult == generated.value
             imageUrl == DataUrl(imageResult.mimeType, imageResult.data)
             imageFile == dataURLtoFile(imageUrl, suggestion.name)
         IN  IF imageFile # Null
             THEN Put(prev, suggestion.name,
                      [url |-> imageUrl, mimeType |-> imageResult.mimeType, file |-> imageFile])
             ELSE prev

\* The rejection let through to the catch of handleGetSuggestions.
ErrorAfterImageThrown(prev, generated) ==
    IF generated.ok THEN prev ELSE MessageOf(generated.reason)

\* The error message after one generateClothingImage promise has settled: the
\* .catch of the promise logs the rejection and calls no setError.
ErrorAfterImage(prev, generated) == prev

\* One generateClothingImage promise settles; await Promise.all(imagePromises)
\* resumes with the last of them.
ImageGenerated(op, j, kind) ==
    /\ BagIn(op, stylists)
    /\ op.pc = "generateClothingImage"
    /\ j \in op.pending
    /\ \E suggestion \in {op.results[j]} :
       \E generated \in {generateClothingImage(apiKey,
                              GenerationResponse(suggestion.description, kind))} :
          /\ suggestionImages' = ImageSettled(suggestionImages, suggestion, generated)
          /\ error' = ErrorAfterImage(error, generated)
          /\ IF op.pending = {j}
             THEN StylistFinally(op)
             ELSE /\ stylists' = Replaced(stylists, op,
                         [op EXCEPT !.pending = @ \ {j},
                                    !.succeeded = IF generated.ok THEN @ \cup {j} ELSE @])
                  /\ UNCHANGED <<isLoading, loadingText>>
    /\ UNCHANGED <<view, personImage, clothingImage, generatedImage, history,
                   removeBgEnabled, styleTheme, savedSession, localStorage, stylistPrompt,
                   customStylistPrompt, suggestions, tryOns>>
    /\ EnvUnchanged

\* The click on the tile of suggestions[i]; handleUseSuggestionImage(file).
handleUseSuggestionImage(i) ==
    /\ view = "tryOn"
    /\ i \in DOMAIN suggestions
    /\ suggestions[i].name \in DOMAIN suggestionImages
    /\ suggestionImages[suggestions[i].name] # Loading
    /\ LET file == suggestionImages[suggestions[i].name].file
       IN  clothingImage' = UploadedImage(file, CreateObjectURL(file))
    /\ error' = Null
    /\ UNCHANGED <<view, personImage, generatedImage, isLoading, loadingText, history,
                   removeBgEnabled, styleTheme, savedSession>>
    /\ Render(FALSE, FALSE, TRUE)
    /\ StylistUnchanged /\ AsyncUnchanged /\ EnvUnchanged

-----------------------------------------------------------------------------
(* The environment: the page is reloaded.  The store answers the same way   *)
(* (storageMode) throughout a run.                                          *)

Reload ==
    /\ LET m == Mounted(localStorage, storageMode)
       IN  /\ view' = "start"
           /\ personImage' = m.personImage
           /\ clothingImage' = m.clothingImage
           /\ generatedImage' = Null
           /\ isLoading' = FALSE
           /\ loadingText' = EmptyString
           /\ error' = Null
           /\ history' = m.history
           /\ removeBgEnabled' = m.removeBgEnabled
           /\ styleTheme' = m.styleTheme
           /\ savedSession' = m.savedSession
           /\ localStorage' = m.localStorage
           /\ tryOns' = <<>>
           /\ stylistPrompt' = ""
           /\ customStylistPrompt' = ""
           /\ suggestions' = <<>>
           /\ suggestionImages' = NoImages
           /\ stylists' = EmptyBag
           /\ uncaught' = FALSE
    /\ UNCHANGED <<storageMode, apiKey, codec>>

-----------------------------------------------------------------------------

\* The session machine: every handler but those of the AI stylist.
Next ==
    \/ OnStart
    \/ ResultStartNew
    \/ OnViewHistory
    \/ BackToMenu
    \/ handleLoadSession
    \/ \E file \in PersonFiles : PersonImageChange(file)
    \/ \E file \in ClothingFiles : ClothingImageChange(file)
    \/ ToggleRemoveBg
    \/ \E theme \in StyleChoices : SetStyleTheme(theme)
    \/ handleSaveSession
    \/ \E i \in 0..(MaxHistory - 1), confirmed \in BOOLEAN : handleDeleteHistoryItem(i, confirmed)
    \/ handleTryOn
    \/ \E k \in 1..MaxTryOns, readOk \in BOOLEAN : TryOnPersonRead(k, readOk)
    \/ \E k \in 1..MaxTryOns, response \in RemovalResponses : TryOnBackgroundRemoved(k, response)
    \/ \E k \in 1..MaxTryOns, readOk \in BOOLEAN : TryOnClothingRead(k, readOk)
    \/ \E k \in 1..MaxTryOns, response \in CompositeResponses : TryOnComposited(k, response)
    \/ Reload

Spec == Init /\ [][Next]_vars

\* The AI stylist beside the try-on, over a store that takes writes: the
\* stylist's handlers, the navigation with its reset, the uploads, and a
\* try-on that runs through its pipeline and whose composite call fails (the
\* successful composite is in Spec).
InitStylist ==
    /\ storageMode = "ok"
    /\ apiKey \in BOOLEAN
    /\ codec = Null
    /\ MountOver(EmptyStorage, storageMode, Mounted(EmptyStorage, storageMode))

NextStylist ==
    \/ OnStart
    \/ BackToMenu
    \/ PersonImageChange(PersonPhoto)
    \/ ClothingImageChange(ClothingPhoto)
    \/ \E prompt \in StylistPrompts : SetStylistPrompt(prompt)
    \/ \E text \in CustomPrompts : SetCustomStylistPrompt(text)
    \/ handleGetSuggestions
    \/ \E op \in BagToSet(stylists) : StylistTimer(op)
    \/ \E op \in BagToSet(stylists), response \in SuggestionResponses :
          SuggestionsFetched(op, response)
    \/ \E op \in BagToSet(stylists), j \in 1..MaxBatch, kind \in ResponseKinds :
          ImageGenerated(op, j, kind)
    \/ \E i \in 1..MaxBatch : handleUseSuggestionImage(i)
    \/ handleTryOn
    \/ \E k \in 1..MaxTryOns : TryOnPersonRead(k, TRUE)
    \/ \E k \in 1..MaxTryOns : TryOnBackgroundRemoved(k, BackgroundRemoved)
    \/ \E k \in 1..MaxTryOns : TryOnClothingRead(k, TRUE)
    \/ \E k \in 1..MaxTryOns : TryOnComposited(k, NetworkFailure)

SpecStylist == InitStylist /\ [][NextStylist]_vars

-----------------------------------------------------------------------------
(* Termination.  The try-on and the stylist side by side with the user's    *)
(* part cut down to what starts them, every response of the external model  *)
(* possible, and every pending file read and gateway call settling in the   *)
(* end (there is no cancellation and no timeout in the handlers).           *)

LiveSuggestionResponses == {[kind |-> "json", suggestions |-> Batch(MaxBatch)], NetworkFailure}
LiveResponseKinds == {"image", "network"}
LiveRemovalResponses == {BackgroundRemoved, NetworkFailure}
LiveCompositeResponses == {ImageResponse(Base64(<<1>>), "image/png"), NetworkFailure}

InitLive ==
    /\ storageMode = "ok"
    /\ apiKey = TRUE
    /\ codec = Null
    /\ MountOver(EmptyStorage, storageMode, Mounted(EmptyStorage, storageMode))

\* A pending await of a try-on settles.
TryOnSettles ==
    \E k \in 1..MaxTryOns :
       \/ TryOnPersonRead(k, TRUE)
       \/ \E response \in LiveRemovalResponses : TryOnBackgroundRemoved(k, response)
       \/ TryOnClothingRead(k, TRUE)
       \/ \E response \in LiveCompositeResponses : TryOnComposited(k, response)

\* A pending gateway call of a suggestion operation settles.
SuggestionSettles ==
    \E op \in BagToSet(stylists) :
       \/ \E response \in LiveSuggestionResponses : SuggestionsFetched(op, response)
       \/ \E j \in 1..MaxBatch, kind \in LiveResponseKinds : ImageGenerated(op, j, kind)

NextLive ==
    \/ OnStart
    \/ ResultStartNew
    \/ PersonImageChange(PersonPhoto)
    \/ ClothingImageChange(ClothingPhoto)
    \/ SetStylistPrompt("casual")
    \/ handleGetSuggestions
    \/ \E op \in BagToSet(stylists) : StylistTimer(op)
    \/ handleTryOn
    \/ TryOnSettles
    \/ SuggestionSettles

Settling == WF_vars(TryOnSettles) /\ WF_vars(SuggestionSettles)

SpecLive == InitLive /\ [][NextLive]_vars /\ Settling

-----------------------------------------------------------------------------
(* The codec utilities alone: a file of any bytes and MIME type is read by  *)
(* fileToBase64, and the text it resolves with, put after                   *)
(* 'data:<type>;base64,', is given to dataURLtoFile.                        *)

CodecBytes == {0, 77, 255}
CodecTypes == {"image/png", "image/jpeg", ""}

RECURSIVE ByteStrings(_)
ByteStrings(n) ==
    IF n = 0 THEN {<<>>}
    ELSE LET shorter == ByteStrings(n - 1)
         IN  shorter \cup {Append(b, x) : b \in shorter, x \in CodecBytes}

CodecFiles ==
    {[content |-> c, type |-> m, name |-> "x.bin"] : c \in ByteStrings(MaxLen), m \in CodecTypes}

InitCodec ==
    /\ storageMode = "ok"
    /\ apiKey = TRUE
    /\ MountOver(EmptyStorage, storageMode, Mounted(EmptyStorage, storageMode))
    /\ \E file \in CodecFiles, readOk \in BOOLEAN :
          codec = [file |-> file, readOk |-> readOk, pc |-> "fileToBase64",
                   read |-> Null, decoded |-> Null]

AppUnchanged ==
    UNCHANGED <<view, personImage, clothingImage, generatedImage, isLoading, loadingText,
                error, history, removeBgEnabled, styleTheme, savedSession, localStorage,
                storageMode, apiKey, tryOns, stylistPrompt, customStylistPrompt,
                suggestions, suggestionImages, stylists, uncaught>>

\* fileToBase64(file) settles.
CodecRead ==
    /\ codec.pc = "fileToBase64"
    /\ codec' = [codec EXCEPT !.read = fileToBase64(codec.file, codec.readOk),
                              !.pc = "dataURLtoFile"]
    /\ AppUnchanged

\* dataURLtoFile(`data:${file.type};base64,${base64}`, file.name)
CodecDecode ==
    /\ codec.pc = "dataURLtoFile"
    /\ codec.read.ok
    /\ codec' = [codec EXCEPT
                    !.decoded = dataURLtoFile(DataUrl(codec.file.type, codec.read.value),
                                              codec.file.name),
                    !.pc = "done"]
    /\ AppUnchanged

NextCodec == CodecRead \/ CodecDecode

SpecCodec == InitCodec /\ [][NextCodec]_vars

-----------------------------------------------------------------------------
(* The try-on.                                                              *)

\* C1: every try-on that completes successfully puts exactly one entry at the
\* front of the history, made of the person preview, the clothing preview and
\* the returned image; the entries that were there follow it in their order;
\* the view goes from loading to result.
C1_SuccessPrepends ==
    [][\A k \in 1..MaxTryOns, response \in CompositeResponses :
          (TryOnComposited(k, response) /\ virtualTryOn(apiKey, response).ok)
          => /\ view = "loading" /\ view' = "result"
             /\ Len(history') = Len(history) + 1
             /\ history'[1] = [person |-> personImage.previewUrl,
                               clothing |-> clothingImage.previewUrl,
                               result |-> DataUrl(response.mimeType, response.data)]
             /\ \A i \in 1..Len(history) : history'[i + 1] = history[i]]_vars

\* A second successful try-on has put its entry in front of a different one.
C1_Witness ==
    /\ view = "result"
    /\ Len(history) = 2
    /\ generatedImage # Null
    /\ history[1].result = generatedImage.url
    /\ history[2].result # history[1].result

\* C2: a try-on that fails at the reading of the person file, at the
\* background removal, at the reading of the clothing file or at the composite
\* call leaves the history as it was, takes the view from loading to tryOn and
\* sets error to a non-empty message.
C2_FailureKeepsHistory ==
    [][\A k \in 1..MaxTryOns :
          (\/ \E readOk \in BOOLEAN :
                 /\ TryOnPersonRead(k, readOk)
                 /\ ~fileToBase64(personImage.file, readOk).ok
           \/ \E response \in RemovalResponses :
                 /\ TryOnBackgroundRemoved(k, response)
                 /\ ~removeBackground(apiKey, response).ok
           \/ \E readOk \in BOOLEAN :
                 /\ TryOnClothingRead(k, readOk)
                 /\ ~fileToBase64(clothingImage.file, readOk).ok
           \/ \E response \in CompositeResponses :
                 /\ TryOnComposited(k, response)
                 /\ ~virtualTryOn(apiKey, response).ok)
          => /\ history' = history
             /\ view = "loading" /\ view' = "tryOn"
             /\ error' # Null
             /\ error'.text # ""]_vars

\* The background removal of a try-on failed after an earlier try-on had
\* succeeded: the entry is still the only one.
C2_Witness ==
    /\ view = "tryOn"
    /\ tryOns = <<>>
    /\ error = Lit("Failed to remove background. Please check the console for more details.")
    /\ Len(history) = 1

\* C3: a try-on asked for while the person image or the clothing image is
\* missing starts no invocation (so no gateway call is issued), sets the
\* validation error, and leaves the view at tryOn and the history as it was.
C3_MissingImageRejected ==
    [][(handleTryOn /\ (personImage = Null \/ clothingImage = Null))
          => /\ tryOns' = tryOns
             /\ error' = t("errorNeedBothImagesUpload")
             /\ error'.text # ""
             /\ view = "tryOn" /\ view' = "tryOn"
             /\ history' = history]_vars

\* The try-on was asked for with the person image alone.
C3_Witness ==
    /\ error = t("errorNeedBothImagesUpload")
    /\ personImage # Null
    /\ clothingImage = Null
    /\ view = "tryOn"
    /\ tryOns = <<>>

\* C4: the gateway calls of one try-on.  With background removal enabled, one
\* removeBackground call on the bytes and MIME type of the person file, its
\* return, and then the one virtualTryOn call, on the bytes and MIME type the
\* removal returned; with it disabled, the one virtualTryOn call alone, on the
\* bytes and MIME type of the person file.
C4_RemovalBeforeComposite ==
    \A k \in DOMAIN tryOns :
       LET op == tryOns[k]
           original == <<Base64(personImage.file.content), personImage.file.type>>
           removal == <<Call("removeBackground", original)>>
           composite(person) ==
               <<Call("virtualTryOn",
                      person \o <<Base64(clothingImage.file.content),
                                  clothingImage.file.type, styleTheme>>)>>
       IN  /\ op.removeBgEnabled = removeBgEnabled
           /\ op.pc = "readPerson" => op.calls = <<>>
           /\ op.pc = "removeBackground" => removeBgEnabled /\ op.calls = removal
           /\ op.pc \in {"readClothing", "virtualTryOn"} /\ ~removeBgEnabled =>
                 op.calls = IF op.pc = "readClothing" THEN <<>> ELSE composite(original)
           /\ op.pc \in {"readClothing", "virtualTryOn"} /\ removeBgEnabled =>
                 /\ Len(op.calls) = IF op.pc = "readClothing" THEN 2 ELSE 3
                 /\ SubSeq(op.calls, 1, 1) = removal
                 /\ op.calls[2].event = "return"
                 /\ op.calls[2].fn = "removeBackground"
                 /\ op.calls[2].value \in
                       {[data |-> r.data, mimeType |-> r.mimeType] :
                          r \in {x \in RemovalResponses : x.kind = "image"}}
                 /\ op.pc = "virtualTryOn" =>
                       SubSeq(op.calls, 3, 3) =
                          composite(<<op.calls[2].value.data, op.calls[2].value.mimeType>>)

\* The composite call of a try-on with background removal is pending.
C4_Witness ==
    /\ removeBgEnabled
    /\ Len(tryOns) = 1
    /\ tryOns[1].pc = "virtualTryOn"
    /\ Len(tryOns[1].calls) = 3

-----------------------------------------------------------------------------
(* The saved session and the history list.                                  *)

\* C5: loading the saved session makes the current person image and clothing
\* image those of the snapshot, with its background-removal flag and style
\* theme, and the view tryOn.
C5_LoadRestoresSession ==
    [][handleLoadSession
          => /\ personImage' # Null
             /\ personImage'.previewUrl = savedSession.personImage
             /\ clothingImage' # Null
             /\ clothingImage'.previewUrl = savedSession.clothingImage
             /\ removeBgEnabled' = savedSession.removeBgEnabled
             /\ styleTheme' = savedSession.styleTheme
             /\ view' = "tryOn"]_vars

\* C6: there is one slot for the saved session, the same in memory and in the
\* store.  A save with both images whose write the store takes makes the slot
\* the snapshot of the current previews, flag and theme; a save with an image
\* missing leaves the slot as it was and sets an error, and so does a save
\* whose write the store refuses; nothing but a save changes the slot.
C6_SlotHoldsLastSave ==
    [][LET slot == localStorage["trayonSavedSession"]
           slotAfter == localStorage'["trayonSavedSession"]
           kept == /\ savedSession' = savedSession
                   /\ slotAfter = slot
                   /\ error' # Null
                   /\ error'.text # ""
       IN  /\ handleSaveSession =>
                 IF personImage = Null \/ clothingImage = Null THEN kept
                 ELSE IF storageMode # "ok" THEN kept
                 ELSE LET snapshot == [personImage |-> personImage.previewUrl,
                                       clothingImage |-> clothingImage.previewUrl,
                                       removeBgEnabled |-> removeBgEnabled,
                                       styleTheme |-> styleTheme]
                      IN  /\ savedSession' = snapshot
                          /\ slotAfter = Json(snapshot)
           /\ (savedSession' # savedSession \/ slotAfter # slot) => handleSaveSession
           /\ savedSession' = IF slotAfter = Null THEN Null ELSE slotAfter.json]_vars

\* A session was saved, the images were reset, and a save was then asked for
\* without them: the slot still holds the session.
C6_Witness ==
    /\ savedSession # Null
    /\ localStorage["trayonSavedSession"] = Json(savedSession)
    /\ personImage = Null
    /\ error = t("errorNeedBothImages")

\* C7: a confirmed delete at index i (from 0) removes the entry at that index
\* and keeps the others in their order; a declined delete leaves the history
\* as it was.
C7_DeleteRemovesOne ==
    [][\A i \in 0..(MaxHistory - 1), confirmed \in BOOLEAN :
          handleDeleteHistoryItem(i, confirmed)
          => IF confirmed
             THEN /\ Len(history') = Len(history) - 1
                  /\ \A j \in 1..Len(history') :
                        history'[j] = IF j <= i THEN history[j] ELSE history[j + 1]
             ELSE history' = history]_vars

\* The newest of two entries was deleted in the result view: the one left is
\* not the entry of the image on display.
C7_Witness ==
    /\ view = "result"
    /\ Len(history) = 1
    /\ history[1].result # generatedImage.url

-----------------------------------------------------------------------------
(* The suggestion batch.                                                    *)

\* C8: a batch of n suggestions with pairwise distinct names, run with nothing
\* else writing the suggestion-image map (no reset, no other request), of which
\* k image generations fail: when the last generation settles, in whatever
\* order they did, the map has exactly n - k entries, the ready image of each
\* suggestion whose generation succeeded and nothing for the others.
C8_BatchLeavesSucceeded ==
    [][\A op \in BagToSet(stylists), j \in 1..MaxBatch, kind \in ResponseKinds :
          (/\ op.pending = {j}
           /\ op.alone
           /\ \A a, b \in DOMAIN op.results :
                 a # b => op.results[a].name # op.results[b].name
           /\ ImageGenerated(op, j, kind))
          => LET n == Len(op.results)
                 last == generateClothingImage(apiKey,
                            GenerationResponse(op.results[j].description, kind))
                 succeeded == op.succeeded \cup (IF last.ok THEN {j} ELSE {})
                 k == n - Cardinality(succeeded)
                 Image(i) == DataUrl("image/png", <<ToString(op.results[i].description)>>)
             IN  /\ Cardinality(DOMAIN suggestionImages') = n - k
                 /\ DOMAIN suggestionImages' = {op.results[i].name : i \in succeeded}
                 /\ \A i \in succeeded :
                       LET entry == suggestionImages'[op.results[i].name]
                       IN  /\ entry # Loading
                           /\ entry.url = Image(i)
                           /\ entry.file.content = <<op.results[i].description>>]_vars

\* C8 as it is stated, for every batch: when the last generation of a batch
\* with pairwise distinct names settles, the map has an entry for each
\* suggestion whose generation succeeded, and no other entry.
C8_EveryBatchLeavesSucceeded ==
    [][\A op \in BagToSet(stylists), j \in 1..MaxBatch, kind \in ResponseKinds :
          (/\ op.pending = {j}
           /\ \A a, b \in DOMAIN op.results :
                 a # b => op.results[a].name # op.results[b].name
           /\ ImageGenerated(op, j, kind))
          => LET last == generateClothingImage(apiKey,
                            GenerationResponse(op.results[j].description, kind))
                 succeeded == op.succeeded \cup (IF last.ok THEN {j} ELSE {})
             IN  /\ Cardinality(DOMAIN suggestionImages') = Cardinality(succeeded)
                 /\ DOMAIN suggestionImages' = {op.results[i].name : i \in succeeded}]_vars

\* A batch of two has settled with one generation failed: the list has two
\* suggestions and the map the one ready image.
C8_Witness ==
    /\ stylists = EmptyBag
    /\ ~isLoading
    /\ Len(suggestions) = 2
    /\ suggestions[1].name # suggestions[2].name
    /\ DOMAIN suggestionImages = {suggestions[2].name}
    /\ suggestionImages[suggestions[2].name] # Loading

-----------------------------------------------------------------------------
(* The loading view.                                                        *)

\* C9: at most one try-on is in flight; a try-on starts only in the tryOn
\* view, with none in flight, and its start sets the view to loading; the view
\* is loading for as long as the try-on is pending.
C9_OneTryOnInFlight ==
    [][/\ Len(tryOns') <= 1
       /\ tryOns' # <<>> => view' = "loading"
       /\ Len(tryOns') > Len(tryOns) =>
             /\ handleTryOn
             /\ view = "tryOn"
             /\ tryOns = <<>>
             /\ view' = "loading"]_vars

\* The composite call of the one try-on is pending.
C9_Witness ==
    /\ Len(tryOns) = 1
    /\ tryOns[1].pc = "virtualTryOn"
    /\ tryOns[1].removeBgEnabled = FALSE
    /\ view = "loading"
    /\ isLoading

\* C10: within a run of the page, a step that takes the view out of loading
\* is the settling of an await of the pending try-on: to result when the
\* composite call succeeded, and otherwise to tryOn with error set to a
\* non-empty message.  No handler the user can reach does it.
C10_LoadingLeftByResolution ==
    [][(view = "loading" /\ view' # "loading" /\ ~Reload)
          => LET settled ==
                     \E k \in 1..MaxTryOns :
                        \/ \E readOk \in BOOLEAN : TryOnPersonRead(k, readOk)
                        \/ \E response \in RemovalResponses :
                              TryOnBackgroundRemoved(k, response)
                        \/ \E readOk \in BOOLEAN : TryOnClothingRead(k, readOk)
                        \/ \E response \in CompositeResponses : TryOnComposited(k, response)
                 success ==
                     \E k \in 1..MaxTryOns, response \in CompositeResponses :
                        TryOnComposited(k, response) /\ virtualTryOn(apiKey, response).ok
             IN  /\ settled
                 /\ tryOns' = <<>>
                 /\ IF success THEN view' = "result"
                    ELSE view' = "tryOn" /\ error' # Null /\ error'.text # ""]_vars

\* The reading of a file failed and the view is back at tryOn with the
\* fallback message.
C10_Witness ==
    /\ view = "tryOn"
    /\ tryOns = <<>>
    /\ ~isLoading
    /\ error = t("errorUnexpected")

-----------------------------------------------------------------------------
(* The loading indicator and the store.                                     *)

\* C11: while an image generation of a suggestion batch is pending, before
\* and after a step, the step does not clear the loading indicator: isLoading
\* does not go from TRUE to FALSE and the loading text does not go from a text
\* to the empty one, whatever else the step belongs to.
C11_IndicatorKeptWhilePending ==
    [][(/\ \E op \in BagToSet(stylists) : op.pending # {}
        /\ \E op \in BagToSet(stylists') : op.pending # {})
          => /\ isLoading => isLoading'
             /\ loadingText # EmptyString => loadingText' # EmptyString]_vars

\* C12 as it is stated: in a run whose store refuses its writes (or every
\* access), each operation that touches the store leaves error as the operation
\* leaves it when the store works: a save of a session, a toggle, a choice of
\* theme, a delete, a load of the session and the recording of a result leave
\* it as it was; an accepted upload, a reset and the startup leave it null.
C12_StoreFailureSilent ==
    [][storageMode # "ok" =>
          /\ (\/ handleSaveSession /\ personImage # Null /\ clothingImage # Null
              \/ ToggleRemoveBg
              \/ \E theme \in StyleChoices : SetStyleTheme(theme)
              \/ \E i \in 0..(MaxHistory - 1), confirmed \in BOOLEAN :
                    handleDeleteHistoryItem(i, confirmed)
              \/ handleLoadSession
              \/ \E k \in 1..MaxTryOns, response \in CompositeResponses :
                    TryOnComposited(k, response) /\ virtualTryOn(apiKey, response).ok)
             => error' = error
          /\ (\/ OnStart
              \/ ResultStartNew
              \/ Reload
              \/ \E file \in PersonFiles : IsImageType(file.type) /\ PersonImageChange(file)
              \/ \E file \in ClothingFiles : IsImageType(file.type) /\ ClothingImageChange(file))
             => error' = Null]_vars

\* C12, amended: the same, but a save of a session whose write the store
\* refuses sets error to the save-failure message.
C12_StoreFailureSilentButSave ==
    [][storageMode # "ok" =>
          /\ (handleSaveSession /\ personImage # Null /\ clothingImage # Null)
             => error' = t("errorSaveSession")
          /\ (\/ ToggleRemoveBg
              \/ \E theme \in StyleChoices : SetStyleTheme(theme)
              \/ \E i \in 0..(MaxHistory - 1), confirmed \in BOOLEAN :
                    handleDeleteHistoryItem(i, confirmed)
              \/ handleLoadSession
              \/ \E k \in 1..MaxTryOns, response \in CompositeResponses :
                    TryOnComposited(k, response) /\ virtualTryOn(apiKey, response).ok)
             => error' = error
          /\ (\/ OnStart
              \/ ResultStartNew
              \/ Reload
              \/ \E file \in PersonFiles : IsImageType(file.type) /\ PersonImageChange(file)
              \/ \E file \in ClothingFiles : IsImageType(file.type) /\ ClothingImageChange(file))
             => error' = Null]_vars

\* Over a store that is full, a result was recorded, its history write
\* refused, and a save of a session was then refused.
C12_Witness ==
    /\ storageMode = "full"
    /\ Len(history) = 1
    /\ localStorage["trayonHistory"] # Json(history)
    /\ savedSession = Null
    /\ error = t("errorSaveSession")

\* C13: a reset asked for with 'start new', from the start menu or from the
\* result, takes the view to tryOn and no exception leaves its handler, also
\* when the store refuses the removal of the two preview keys.
C13_StartNewReachesTryOn ==
    [][(OnStart \/ ResultStartNew) => (view' = "tryOn" /\ ~uncaught')]_vars

-----------------------------------------------------------------------------
(* The gateway's errors.                                                    *)

\* C14: when the background removal or the composite call of a try-on gets a
\* response with no image and a block reason, the operation rejects with a
\* message that contains the block reason, and error is set to that message;
\* generateClothingImage rejects such a response in the same way.
C14_BlockReasonSurfaces ==
    [][\A k \in 1..MaxTryOns :
          /\ (apiKey /\ TryOnBackgroundRemoved(k, BlockedResponse))
             => /\ removeBackground(TRUE, BlockedResponse).reason.message.arg
                      = BlockedResponse.blockReason
                /\ error'.arg = BlockedResponse.blockReason
          /\ (apiKey /\ TryOnComposited(k, BlockedResponse))
             => /\ virtualTryOn(TRUE, BlockedResponse).reason.message.arg
                      = BlockedResponse.blockReason
                /\ error'.arg = BlockedResponse.blockReason
                /\ generateClothingImage(TRUE, BlockedResponse).reason.message.arg
                      = BlockedResponse.blockReason]_vars

-----------------------------------------------------------------------------
(* The reset.                                                               *)

\* C15: a reset, from the start menu or from the result, leaves the history
\* list and the saved session as they were, in memory and in the store.
C15_ResetKeepsHistoryAndSession ==
    [][(OnStart \/ ResultStartNew)
          => /\ history' = history
             /\ savedSession' = savedSession
             /\ localStorage'["trayonHistory"] = localStorage["trayonHistory"]
             /\ localStorage'["trayonSavedSession"] = localStorage["trayonSavedSession"]]_vars

\* The editing screen after a reset, with an entry in the history and a
\* session in the slot.
C15_Witness ==
    /\ view = "tryOn"
    /\ personImage = Null
    /\ clothingImage = Null
    /\ Len(history) = 1
    /\ localStorage["trayonHistory"] = Json(history)
    /\ savedSession # Null
    /\ localStorage["trayonSavedSession"] = Json(savedSession)

-----------------------------------------------------------------------------
(* What the history and the store hold.                                     *)

\* C16: in every state, the person, the clothing and the result of every
\* history item are data URLs (data:<mime>;base64,<payload>).
C16_HistoryHoldsDataUrls ==
    \A i \in DOMAIN history :
       \A url \in {history[i].person, history[i].clothing, history[i].result} :
          /\ url.head[1] = "data"
          /\ url.comma

\* C17: over a store that works, a restart of the application brings back the
\* person image and the clothing image that were current before it.
C17_RestartRestoresImages ==
    [][(storageMode = "ok" /\ Reload)
          => /\ personImage' = personImage
             /\ clothingImage' = clothingImage]_vars

\* C18: over a store that works, before and after every step the persisted
\* history is the history in memory, and a restart brings back the history
\* that was there before it.
C18_PersistedHistoryIsHistory ==
    [][storageMode = "ok"
          => /\ localStorage["trayonHistory"] = Json(history)
             /\ localStorage'["trayonHistory"] = Json(history')
             /\ Reload => history' = history]_vars

\* The result view after the newest of two entries was deleted: the one entry
\* left is not the result on show, and it is the one persisted.
C18_Witness ==
    /\ storageMode = "ok"
    /\ view = "result"
    /\ generatedImage # Null
    /\ Len(history) = 1
    /\ history[1].result # generatedImage.url
    /\ localStorage["trayonHistory"] = Json(history)

-----------------------------------------------------------------------------
(* The stylist.                                                             *)

\* C19: a suggestion request made with no preset selected, or with 'custom'
\* selected and an empty custom text, starts no gateway call, sets the
\* validation message, and leaves the suggestions and the suggestion images
\* as they were.
C19_EmptyPromptRejected ==
    [][(/\ \/ stylistPrompt = ""
           \/ stylistPrompt = "custom" /\ customStylistPrompt = ""
        /\ handleGetSuggestions)
          => /\ stylists' = stylists
             /\ error' = t("errorSelectStyle")
             /\ error' # Null
             /\ suggestions' = suggestions
             /\ suggestionImages' = suggestionImages]_vars

\* 'custom' with an empty text was rejected over a list fetched before.
C19_Witness ==
    /\ stylistPrompt = "custom"
    /\ customStylistPrompt = ""
    /\ error = t("errorSelectStyle")
    /\ suggestions # <<>>
    /\ stylists = EmptyBag

\* C20: a step that changes the error message is never the settling of a
\* per-suggestion image generation, failed or not; when it is a settling of
\* the suggestion-list fetch, the fetch failed and the message is that of its
\* failure.
C20_ImageFailureSilent ==
    [][error' # error
          => \A op \in BagToSet(stylists) :
                /\ \A j \in 1..MaxBatch, kind \in ResponseKinds :
                      ~(/\ op.pc = "generateClothingImage"
                        /\ j \in op.pending
                        /\ ImageGenerated(op, j, kind))
                /\ \A response \in SuggestionResponses :
                      (/\ op.pc = "getClothingSuggestions"
                       /\ SuggestionsFetched(op, response))
                         => LET fetched == getClothingSuggestions(apiKey, response)
                            IN  /\ ~fetched.ok
                                /\ error' = MessageOf(fetched.reason)]_vars

\* A request is over with the image of one of its two suggestions in the map
\* and the other one's generation failed, and no message is shown.
C20_Witness ==
    /\ stylists = EmptyBag
    /\ Len(suggestions) = 2
    /\ suggestions[1].name \in DOMAIN suggestionImages
    /\ suggestionImages[suggestions[1].name] # Loading
    /\ suggestions[2].name \notin DOMAIN suggestionImages
    /\ error = Null

-----------------------------------------------------------------------------
(* The codec.                                                               *)

-----------------------------------------------------------------------------
(* The views.                                                               *)

\* C22: the view changes only by these steps: start to tryOn with the images
\* and the result reset (start new) or with a saved session present (load);
\* start to history with a non-empty history; tryOn to start; tryOn to loading
\* with both images present; loading to result or to tryOn; result to tryOn
\* with the reset; history to start.  A restart of the application begins
\* again at start.
C22_ViewSteps ==
    [][view' # view
          => \/ /\ view = "start" /\ view' = "tryOn"
                /\ \/ personImage' = Null /\ clothingImage' = Null /\ generatedImage' = Null
                   \/ savedSession # Null
             \/ view = "start" /\ view' = "history" /\ Len(history) > 0
             \/ view = "tryOn" /\ view' = "start"
             \/ /\ view = "tryOn" /\ view' = "loading"
                /\ personImage # Null /\ clothingImage # Null
             \/ view = "loading" /\ view' \in {"result", "tryOn"}
             \/ /\ view = "result" /\ view' = "tryOn"
                /\ personImage' = Null /\ clothingImage' = Null /\ generatedImage' = Null
             \/ view = "history" /\ view' = "start"
             \/ Reload]_vars

\* C22, the stylist: no step of a suggestion operation (its timer, the
\* settling of its fetch or of one of its image generations) changes the view.
C22_StylistKeepsView ==
    [][view' # view
          => \A op \in BagToSet(stylists) :
                /\ ~StylistTimer(op)
                /\ \A response \in SuggestionResponses : ~SuggestionsFetched(op, response)
                /\ \A j \in 1..MaxBatch, kind \in ResponseKinds : ~ImageGenerated(op, j, kind)]_vars

\* The history view, entered from the start menu.
C22_Witness ==
    /\ view = "history"
    /\ Len(history) = 1
    /\ generatedImage = Null
    /\ savedSession # Null

\* C23: whenever the view is loading the status text is one of the messages
\* of the try-on pipeline, none of them empty, and while the view stays
\* loading the text changes only forward in the pipeline: from the initial
\* message to 'removing background' or 'generating look', from 'removing
\* background' to 'generating look'.
C23_LoadingTextIsPipeline ==
    [][/\ view' = "loading"
             => /\ loadingText' \in {t("magicMessage"), t("removingBackground"),
                                     t("generatingLook")}
                /\ loadingText' # EmptyString
       /\ (view = "loading" /\ view' = "loading" /\ loadingText' # loadingText)
             => \/ /\ loadingText = t("magicMessage")
                   /\ loadingText' \in {t("removingBackground"), t("generatingLook")}
                \/ /\ loadingText = t("removingBackground")
                   /\ loadingText' = t("generatingLook")]_vars

\* C24: with every pending file read and gateway call settling in the end,
\* a view at loading is left in the end, a pending suggestion operation is
\* followed in the end by a cleared loading flag and an empty loading text,
\* and a loading flag that is set is cleared in the end.
C24_Terminates ==
    /\ (view = "loading") ~> (view \in {"result", "tryOn"})
    /\ (stylists # EmptyBag) ~> (~isLoading /\ loadingText = EmptyString)
    /\ isLoading ~> ~isLoading

\* A suggestion operation has ended with its list and a try-on has ended in
\* the result view; nothing is pending and the flag and the text are clear.
C24_Witness ==
    /\ view = "result"
    /\ stylists = EmptyBag
    /\ tryOns = <<>>
    /\ suggestions # <<>>
    /\ ~isLoading
    /\ loadingText = EmptyString

-----------------------------------------------------------------------------
(* The history.                                                             *)

\* C25: the history changes only in three ways: by the step from loading to
\* result, which puts one entry in front; by a confirmed delete in the
\* history view or the result view, which removes exactly the entry at the
\* index that was displayed and keeps the others in order; and by a restart.
\* So no entry is added while the view is history or result.
C25_NoAppendWhileListed ==
    [][history' # history
          => \/ /\ view = "loading" /\ view' = "result"
                /\ Len(history') = Len(history) + 1
                /\ Tail(history') = history
             \/ /\ view \in {"history", "result"} /\ view' = view
                /\ \E i \in DOMAIN history :
                      history' = SubSeq(history, 1, i - 1) \o SubSeq(history, i + 1, Len(history))
             \/ Reload]_vars

\* The result view after its only history entry was deleted.
C25_Witness ==
    /\ view = "result"
    /\ generatedImage # Null
    /\ history = <<>>
    /\ tryOns = <<>>

-----------------------------------------------------------------------------
(* The stylist's operations side by side.                                   *)

\* C26: in every state at most one invocation of handleGetSuggestions has not
\* reached the end of its finally block.
C26_OneSuggestionInFlight == BagCardinality(stylists) <= 1

\* C27: in every state every key of the suggestion-image map is the name of
\* a suggestion of the current suggestions list.
C27_ImageKeysAreSuggestions ==
    DOMAIN suggestionImages \subseteq {suggestions[i].name : i \in DOMAIN suggestions}

\* C28: when the two suggestions of a batch share a name, the generation that
\* settles last decides the one map entry of that name: when it failed the
\* name is out of the map, whatever the other generation gave (so a success
\* followed by a failure shows no image), and when it succeeded the entry is
\* its image (so a failure followed by a success shows the image on both
\* tiles).
C28_LastSettlingDecides ==
    [][\A op \in BagToSet(stylists), j \in 1..MaxBatch, kind \in ResponseKinds :
          (/\ op.pc = "generateClothingImage"
           /\ op.results = DuplicateBatch
           /\ op.pending = {j}
           /\ ImageGenerated(op, j, kind))
             => LET name == DuplicateBatch[1].name
                IN  IF kind = "image" /\ apiKey
                    THEN /\ name \in DOMAIN suggestionImages'
                         /\ suggestionImages'[name] # Loading
                         /\ suggestionImages'[name].file.content = <<DuplicateBatch[j].description>>
                    ELSE name \notin DOMAIN suggestionImages']_vars

\* A batch of two suggestions of one name is over, and the map holds the image
\* of the first one's description under that name.
C28_Witness ==
    /\ suggestions = DuplicateBatch
    /\ stylists = EmptyBag
    /\ DOMAIN suggestionImages = {DuplicateBatch[1].name}
    /\ suggestionImages[DuplicateBatch[1].name] # Loading
    /\ suggestionImages[DuplicateBatch[1].name].file.content = <<DuplicateBatch[1].description>>

\* C29: whenever no suggestion operation is in flight, which is the case when
\* one has completed that no other one overlapped, no entry of the
\* suggestion-image map is the 'loading' marker: every name in the map has a
\* ready image with its url, its MIME type and its file.
C29_NoMarkerLeft ==
    stylists = EmptyBag
       => \A name \in DOMAIN suggestionImages :
             /\ suggestionImages[name] # Loading
             /\ DOMAIN suggestionImages[name] = {"url", "mimeType", "file"}
             /\ suggestionImages[name].file # Null
             /\ suggestionImages[name].url.comma

\* A request for two suggestions is over: one has its image, the other one's
\* generation failed and its name is out of the map.
C29_Witness ==
    /\ stylists = EmptyBag
    /\ suggestions = Batch(2)
    /\ DOMAIN suggestionImages = {2}
    /\ suggestionImages[2].mimeType = "image/png"

-----------------------------------------------------------------------------
(* The result view.                                                         *)

====
